---- MODULE Spec2Model ----
(***************************************************************************)
(* Invite token service (invite-service/server.js): the tokens table and   *)
(* the generate / verify / consume / reset handlers, each handler split at *)
(* its awaited store queries, which are the points where concurrent        *)
(* requests interleave.                                                    *)
(***************************************************************************)
EXTENDS Integers, Sequences, FiniteSets, TLC

\* ---------------------------------------------------------------- bounds
NProcs == 2          \* requests that can be in flight at the same time
MaxClock == 1        \* CURRENT_TIMESTAMP takes the values 0..MaxClock
MaxCount == 1        \* largest count a Generate request asks for
MaxResets == 1       \* Reset requests served in one behaviour
MaxGenCount == 2     \* largest count asked for when only Generate runs

\* ------------------------------------------------------ program constants
MaxRetries == 5      \* while (!token && retries < 5)

\* ------------------------------------------------------------- value sets
Procs == 1..NProcs
Keyspace == {"A", "B"}              \* values generateToken() can return
Idents == Keyspace \cup {"ZZZZZZZ"} \* values of req.params.token
NullStr == "null"
Recipients == {"r1"}                \* req.body.recipient (null when absent)
Emails == {"e1"}                    \* req.body.email ('unknown' when absent)
Providers == {"unknown"}            \* req.body.provider || 'unknown'
IpAddrs == {"unknown"}              \* x-forwarded-for || remoteAddress || 'unknown'
NullTs == <<>>                      \* a TIMESTAMP column holding NULL

VARIABLES
    store,      \* the tokens table: a set of rows
    now,        \* CURRENT_TIMESTAMP
    req,        \* req[p]: the request served in slot p and where its handler is
    created,    \* history: created[t] = rows inserted for token t so far
    consumed,   \* history: consumed[t] = Consume(t) calls that returned success
    observed,   \* history: "none" | "used" (t seen used) | "cleared" (Reset since)
    resets,     \* history: Reset requests served
    wiped,      \* history: tokens generated before the last Reset, not since
    script      \* the sequential test client (runTest)

vars == <<store, now, req, created, consumed, observed, resets, wiped, script>>

\* ------------------------------------------------------------ the table
\* Fault variant: an INSERT that does not store the recipient.
NewRowBuggyNoRecipient(token, recipient, ts) ==
    [token |-> token, created_at |-> ts, used |-> 0, used_at |-> <<>>,
     recipient_name |-> "null", activated_by |-> "null",
     auth_provider |-> "null", ip_address |-> "null"]

\* CREATE TABLE tokens: created_at DEFAULT CURRENT_TIMESTAMP, used DEFAULT 0,
\* every other column NULL unless the INSERT names it.
NewRow(token, recipient, ts) ==
    [token |-> token, created_at |-> ts, used |-> 0, used_at |-> NullTs,
     recipient_name |-> recipient, activated_by |-> NullStr,
     auth_provider |-> NullStr, ip_address |-> NullStr]

\* SELECT ... FROM tokens WHERE token = $1
SelectByToken(tbl, token) == {r \in tbl : r.token = token}

\* Fault variant: a table without the primary key accepts every INSERT.
InsertOkBuggyNoPrimaryKey(tbl, token) == TRUE

\* token TEXT PRIMARY KEY: the INSERT throws when the key is present.
InsertOk(tbl, token) == SelectByToken(tbl, token) = {}

\* INSERT INTO tokens (token, recipient_name) VALUES ($1, $2)
InsertRow(tbl, token, recipient, ts) == tbl \cup {NewRow(token, recipient, ts)}

\* Fault variant: the UPDATE without "token = $1".
UpdateMatchesBuggyNoTokenGuard(tbl, token) == {r \in tbl : r.used = 0}

\* Fault variant: the UPDATE without "AND used = 0".
UpdateMatchesBuggyNoUsedGuard(tbl, token) == {r \in tbl : r.token = token}

\* UPDATE tokens SET ... WHERE token = $1 AND used = 0: the rows it matches
UpdateMatches(tbl, token) == {r \in tbl : r.token = token /\ r.used = 0}

\* Fault variants: the SET list without used_at, and without the identity
\* columns.
UpdateSetBuggyNoUsedAt(r, email, provider, ip, ts) ==
    [r EXCEPT !.used = 1, !.activated_by = email,
              !.auth_provider = provider, !.ip_address = ip]

UpdateSetBuggyNoIdentity(r, email, provider, ip, ts) ==
    [r EXCEPT !.used = 1, !.used_at = <<ts>>]

\* SET used = 1, used_at = CURRENT_TIMESTAMP, activated_by = $2,
\*     auth_provider = $3, ip_address = $4
UpdateSet(r, email, provider, ip, ts) ==
    [r EXCEPT !.used = 1, !.used_at = <<ts>>, !.activated_by = email,
              !.auth_provider = provider, !.ip_address = ip]

UpdateConsume(tbl, token, email, provider, ip, ts) ==
    (tbl \ UpdateMatches(tbl, token))
        \cup {UpdateSet(r, email, provider, ip, ts) : r \in UpdateMatches(tbl, token)}

\* ------------------------------------------------------------- requests
\* The locals of a handler (count, recipient, i, retries, successfulTokens),
\* its position pc ("idle" | "loop" | "diag" | "done"), the answer it sent, and
\* history fields: existed = a row for the token was in the table when the
\* consume UPDATE ran; asked = req.body.count as the caller sent it;
\* attempts = INSERTs issued so far by the running generate loop; failed = a
\* store call of the request failed.  total .. latest_tokens are the locals and
\* the response of the analytics handler.
IdleReq ==
    [op |-> "none", pc |-> "idle", token |-> NullStr, count |-> 0,
     recipient |-> NullStr, i |-> 0, retries |-> 0, successfulTokens |-> <<>>,
     result |-> "none", existed |-> FALSE, asked |-> 0, attempts |-> 0,
     failed |-> FALSE, total |-> 0, used |-> 0, unused |-> 0,
     conversionRate |-> NullStr, recent |-> <<>>, latest_tokens |-> <<>>]

ZeroCount == [t \in Idents |-> 0]

Init ==
    /\ store = {}
    /\ now = 0
    /\ req = [p \in Procs |-> IdleReq]
    /\ created = ZeroCount
    /\ consumed = ZeroCount
    /\ observed = [t \in Idents |-> "none"]
    /\ resets = 0
    /\ wiped = {}
    /\ script = [pc |-> "off", waiting |-> FALSE, token |-> NullStr, log |-> <<>>]

\* CURRENT_TIMESTAMP advances
Tick ==
    /\ now < MaxClock
    /\ now' = now + 1
    /\ UNCHANGED <<store, req, created, consumed, observed, resets, wiped, script>>

\* ------------------------------------------------------------- handlers
\* The response of a request in slot p: the handler is over.
Respond(p, op, token, result) ==
    [IdleReq EXCEPT !.op = op, !.pc = "done", !.token = token, !.result = result]

\* Fault variants: a verify that never tests row.used, and one that reports
\* a used row as missing.
VerifyResultBuggyIgnoresUsed(rows) ==
    IF rows = {} THEN "not_found" ELSE "valid"

VerifyResultBuggyUsedAsNotFound(rows) ==
    IF \A r \in rows : r.used = 1 THEN "not_found" ELSE "valid"

\* GET /api/verify/:token -- what the handler answers from the rows it read
VerifyResult(rows) ==
    IF rows = {} THEN "not_found"
    ELSE LET row == CHOOSE r \in rows : TRUE
         IN IF row.used = 1 THEN "used" ELSE "valid"

\* Fault variant: a verify that marks the row it reads as used.
VerifyBuggyMarksUsed(p, t) ==
    /\ req[p].pc = "idle"
    /\ req' = [req EXCEPT ![p] =
                 Respond(p, "verify", t, VerifyResult(SelectByToken(store, t)))]
    /\ store' = UpdateConsume(store, t, "unknown", "unknown", "unknown", now)
    /\ UNCHANGED <<now, created, consumed, observed, resets, wiped>>

\* GET /api/verify/:token -- one SELECT, then the answer
Verify(p, t) ==
    /\ req[p].pc = "idle"
    /\ LET result == VerifyResult(SelectByToken(store, t))
       IN /\ req' = [req EXCEPT ![p] = Respond(p, "verify", t, result)]
          /\ observed' = IF result = "used"
                         THEN [observed EXCEPT ![t] = "used"] ELSE observed
    /\ UNCHANGED <<store, now, created, consumed, resets, wiped>>

\* POST /api/consume/:token -- the conditional UPDATE and the rowCount test
ConsumeUpdate(p, t, email, provider, ip) ==
    /\ req[p].pc = "idle"
    /\ LET rowCount == Cardinality(UpdateMatches(store, t))
           hadRow == SelectByToken(store, t) # {}
       IN /\ store' = UpdateConsume(store, t, email, provider, ip, now)
          /\ IF rowCount = 0
             THEN /\ req' = [req EXCEPT ![p] =
                          [IdleReq EXCEPT !.op = "consume", !.pc = "diag",
                                          !.token = t, !.existed = hadRow]]
                  /\ UNCHANGED <<consumed, observed>>
             ELSE /\ req' = [req EXCEPT ![p] =
                          [Respond(p, "consume", t, "success")
                               EXCEPT !.existed = hadRow]]
                  /\ consumed' = [consumed EXCEPT ![t] = @ + 1]
                  /\ observed' = [observed EXCEPT ![t] = "used"]
    /\ UNCHANGED <<now, created, resets, wiped>>

\* Fault variants: a follow-up read that answers success for a row it finds,
\* and one that never tests rows.length.
DiagResultBuggySuccess(rows) ==
    IF rows = {} THEN "not_found" ELSE "success"

DiagResultBuggyNoNotFound(rows) ==
    IF \E r \in rows : r.used = 0 THEN "unknown_failed" ELSE "already_used"

\* POST /api/consume/:token -- what the zero-rowCount branch answers
DiagResult(rows) ==
    IF rows = {} THEN "not_found"
    ELSE LET row == CHOOSE r \in rows : TRUE
         IN IF row.used = 1 THEN "already_used" ELSE "unknown_failed"

\* POST /api/consume/:token -- the follow-up SELECT of the zero-rowCount branch
ConsumeDiag(p) ==
    /\ req[p].pc = "diag"
    /\ req' = [req EXCEPT ![p] =
                 [req[p] EXCEPT
                     !.pc = "done",
                     !.result = DiagResult(SelectByToken(store, req[p].token))]]
    /\ UNCHANGED <<store, now, created, consumed, observed, resets, wiped>>

\* req.body.count || 1
EffectiveCount(count) == IF count = 0 THEN 1 ELSE count

\* POST /api/generate -- pool.connect(), then the loop is entered
GenerateBegin(p, count, recipient) ==
    /\ req[p].pc = "idle"
    /\ req' = [req EXCEPT ![p] =
                 [IdleReq EXCEPT !.op = "generate", !.pc = "loop",
                                 !.count = EffectiveCount(count),
                                 !.asked = count,
                                 !.recipient = recipient]]
    /\ UNCHANGED <<store, now, created, consumed, observed, resets, wiped>>

\* Fault variant: a retry loop with no cap.
LeaveWhileBuggyNoCap(ok, retries) == ok

\* while (!token && retries < 5): the loop is left once an INSERT succeeded or
\* the failed attempts reached the cap.
LeaveWhile(ok, retries) == ok \/ ~(retries < MaxRetries)

\* POST /api/generate -- one INSERT of the retry loop and the control flow up
\* to the next INSERT or to the response.  ok: the INSERT did not throw;
\* storeFailed: it threw for a reason other than the duplicate key.  The
\* catch block does not tell the two apart.
GenerateAttempt(p, candidate, ok, storeFailed) ==
    /\ req[p].pc = "loop"
    /\ LET r == req[p]
           retries == IF ok THEN r.retries ELSE r.retries + 1
           leaveWhile == LeaveWhile(ok, retries)
           i == IF leaveWhile THEN r.i + 1 ELSE r.i
           tokens == IF ok THEN Append(r.successfulTokens, candidate)
                     ELSE r.successfulTokens
       IN /\ store' = IF ok THEN InsertRow(store, candidate, r.recipient, now)
                      ELSE store
          /\ created' = IF ok THEN [created EXCEPT ![candidate] = @ + 1]
                        ELSE created
          /\ wiped' = IF ok THEN wiped \ {candidate} ELSE wiped
          /\ req' = [req EXCEPT ![p] =
                       IF i < r.count
                       THEN [r EXCEPT !.i = i, !.successfulTokens = tokens,
                                      !.attempts = r.attempts + 1,
                                      !.failed = r.failed \/ storeFailed,
                                      !.retries = IF leaveWhile THEN 0 ELSE retries]
                       ELSE [Respond(p, "generate", NullStr, "generated")
                                EXCEPT !.count = r.count,
                                       !.asked = r.asked,
                                       !.failed = r.failed \/ storeFailed,
                                       !.recipient = r.recipient,
                                       !.successfulTokens = tokens]]
    /\ UNCHANGED <<now, consumed, observed, resets>>

GenerateInsert(p, candidate) ==
    GenerateAttempt(p, candidate, InsertOk(store, candidate), FALSE)

\* Fault variant: a DELETE that spares the used rows.
ResetTableBuggyKeepsUsed(tbl) == {r \in tbl : r.used = 1}

\* DELETE FROM tokens
ResetTable(tbl) == {}

\* DELETE /api/reset -- DELETE FROM tokens
Reset(p) ==
    /\ req[p].pc = "idle"
    /\ resets < MaxResets
    /\ store' = ResetTable(store)
    /\ wiped' = {t \in Idents : created[t] > 0}
    /\ resets' = resets + 1
    /\ observed' = [t \in Idents |->
                     IF observed[t] = "used" THEN "cleared" ELSE observed[t]]
    /\ req' = [req EXCEPT ![p] = Respond(p, "reset", NullStr, "reset_ok")]
    /\ UNCHANGED <<now, created, consumed>>

\* The response has been sent; the slot serves the next request.
Release(p) ==
    /\ req[p].pc = "done"
    /\ req' = [req EXCEPT ![p] = IdleReq]
    /\ UNCHANGED <<store, now, created, consumed, observed, resets, wiped>>

\* ------------------------------------------------- concurrent requests
\* ------------------------------------------------------------ analytics
StatsLimit == 10

Min(a, b) == IF a < b THEN a ELSE b

\* The rows in every order.
Orders(rows) ==
    {s \in [1..Cardinality(rows) -> rows] :
        \A r \in rows : \E j \in DOMAIN s : s[j] = r}

\* LIMIT n
Limit(s, n) == SubSeq(s, 1, Min(n, Len(s)))

\* ORDER BY used_at DESC / ORDER BY created_at DESC: every order of the rows
\* the sort may produce (rows with equal keys come in either order).
OrderedByUsedAt(rows) ==
    {s \in Orders(rows) :
        \A j, k \in DOMAIN s : j < k => s[j].used_at[1] >= s[k].used_at[1]}

OrderedByCreatedAt(rows) ==
    {s \in Orders(rows) :
        \A j, k \in DOMAIN s : j < k => s[j].created_at >= s[k].created_at}

\* SELECT token, used_at, recipient_name, activated_by, auth_provider, ip_address
RecentColumns(r) ==
    [token |-> r.token, used_at |-> r.used_at, recipient_name |-> r.recipient_name,
     activated_by |-> r.activated_by, auth_provider |-> r.auth_provider,
     ip_address |-> r.ip_address]

\* SELECT token, created_at, used, recipient_name
LatestColumns(r) ==
    [token |-> r.token, created_at |-> r.created_at, used |-> r.used,
     recipient_name |-> r.recipient_name]

\* SELECT COUNT(*) as count FROM tokens
CountAll(tbl) == Cardinality(tbl)

\* Fault variant: the used count taken without its WHERE clause.
CountUsedBuggyNoWhere(tbl) == Cardinality(tbl)

\* SELECT COUNT(*) as count FROM tokens WHERE used = 1
CountUsed(tbl) == Cardinality({r \in tbl : r.used = 1})

\* ... FROM tokens WHERE used = 1 ORDER BY used_at DESC LIMIT 10
SelectRecent(tbl) ==
    {[j \in DOMAIN Limit(s, StatsLimit) |-> RecentColumns(s[j])] :
        s \in OrderedByUsedAt({r \in tbl : r.used = 1})}

\* ... FROM tokens ORDER BY created_at DESC LIMIT 10
SelectLatest(tbl) ==
    {[j \in DOMAIN Limit(s, StatsLimit) |-> LatestColumns(s[j])] :
        s \in OrderedByCreatedAt(tbl)}

\* ((used / total) * 100).toFixed(1) + '%', or '0%' when total is 0.  The
\* quotient is rounded to a tenth of a percent.
ConversionRate(total, used) ==
    IF total > 0
    THEN LET tenths == (2000 * used + total) \div (2 * total)
         IN ToString(tenths \div 10) \o "." \o ToString(tenths % 10) \o "%"
    ELSE "0%"

\* GET /api/analytics -- the four queries are awaited one after the other
StatsTotal(p) ==
    /\ req[p].pc = "idle"
    /\ req' = [req EXCEPT ![p] =
                 [IdleReq EXCEPT !.op = "stats", !.pc = "usedRes",
                                 !.total = CountAll(store)]]
    /\ UNCHANGED <<store, now, created, consumed, observed, resets, wiped>>

StatsUsed(p) ==
    /\ req[p].pc = "usedRes"
    /\ req' = [req EXCEPT ![p] =
                 [req[p] EXCEPT !.pc = "recentRes", !.used = CountUsed(store)]]
    /\ UNCHANGED <<store, now, created, consumed, observed, resets, wiped>>

StatsRecent(p) ==
    /\ req[p].pc = "recentRes"
    /\ \E rows \in SelectRecent(store) :
          req' = [req EXCEPT ![p] =
                    [req[p] EXCEPT !.pc = "latestRes", !.recent = rows]]
    /\ UNCHANGED <<store, now, created, consumed, observed, resets, wiped>>

\* the last query, then the response is computed and sent
StatsLatest(p) ==
    /\ req[p].pc = "latestRes"
    /\ \E rows \in SelectLatest(store) :
          req' = [req EXCEPT ![p] =
                    [req[p] EXCEPT
                       !.pc = "done",
                       !.result = "stats",
                       !.unused = req[p].total - req[p].used,
                       !.conversionRate = ConversionRate(req[p].total, req[p].used),
                       !.latest_tokens = rows]]
    /\ UNCHANGED <<store, now, created, consumed, observed, resets, wiped>>

\* ------------------------------------------------------- store failures
\* ensureDB: pool is null, the request is answered 503 before its handler runs.
Unavailable(p, op) ==
    /\ req[p].pc = "idle"
    /\ req' = [req EXCEPT ![p] =
                 [Respond(p, op, NullStr, "unavailable") EXCEPT !.failed = TRUE]]
    /\ UNCHANGED <<store, now, created, consumed, observed, resets, wiped>>

\* A query of verify, consume, analytics or reset, or the pool.connect() of
\* generate, throws: the handler's catch block answers 500 with err.message.
QueryFails(p, op) ==
    /\ \/ req[p].pc = "idle"
       \/ op = "consume" /\ req[p].op = op /\ req[p].pc = "diag"
       \/ op = "stats" /\ req[p].op = op
             /\ req[p].pc \in {"usedRes", "recentRes", "latestRes"}
    /\ req' = [req EXCEPT ![p] =
                 [Respond(p, op, NullStr, "store_error") EXCEPT !.failed = TRUE]]
    /\ UNCHANGED <<store, now, created, consumed, observed, resets, wiped>>

\* An INSERT of generate throws for a store failure: catch (e) { retries++; }
GenerateInsertFails(p) ==
    GenerateAttempt(p, NullStr, FALSE, TRUE)

DoVerify == \E p \in Procs, t \in Idents : Verify(p, t) /\ UNCHANGED script
DoConsumeUpdate ==
    \E p \in Procs, t \in Idents, e \in Emails, pr \in Providers, ip \in IpAddrs :
        ConsumeUpdate(p, t, e, pr, ip) /\ UNCHANGED script
DoConsumeDiag == \E p \in Procs : ConsumeDiag(p) /\ UNCHANGED script
DoGenerateBegin ==
    \E p \in Procs, c \in 0..MaxCount, r \in Recipients :
        GenerateBegin(p, c, r) /\ UNCHANGED script
DoGenerateInsert ==
    \E p \in Procs, c \in Keyspace : GenerateInsert(p, c) /\ UNCHANGED script
DoReset == \E p \in Procs : Reset(p) /\ UNCHANGED script
DoRelease == \E p \in Procs : Release(p) /\ UNCHANGED script

Next ==
    \/ Tick
    \/ DoVerify
    \/ DoConsumeUpdate
    \/ DoConsumeDiag
    \/ DoGenerateBegin
    \/ DoGenerateInsert
    \/ DoReset
    \/ DoRelease

Spec == Init /\ [][Next]_vars

\* The same requests with no Reset ever issued.
NextNoReset ==
    \/ Tick
    \/ DoVerify
    \/ DoConsumeUpdate
    \/ DoConsumeDiag
    \/ DoGenerateBegin
    \/ DoGenerateInsert
    \/ DoRelease

SpecNoReset == Init /\ [][NextNoReset]_vars

\* ------------------------------------------ the sequential client (runTest)
\* runTest issues one request at a time through slot 1 and awaits each answer:
\* reset, generate {count: 1}, verify, consume, verify; the scenario then
\* consumes the same token once more.
ScriptNext(pc) ==
    IF pc = "reset" THEN "generate"
    ELSE IF pc = "generate" THEN "verify1"
    ELSE IF pc = "verify1" THEN "consume1"
    ELSE IF pc = "consume1" THEN "verify2"
    ELSE IF pc = "verify2" THEN "consume2"
    ELSE "end"

\* A table the service can hold when the client starts: every key absent,
\* unused or used.
SeqRows(t) ==
    {{}} \cup {{NewRow(t, r, 0)} : r \in Recipients}
         \cup {{UpdateSet(NewRow(t, r, 0), e, pr, ip, 0)} :
                   r \in Recipients, e \in Emails, pr \in Providers, ip \in IpAddrs}

InitSeq ==
    /\ \E f \in [Keyspace -> UNION {SeqRows(t) : t \in Keyspace}] :
          /\ \A t \in Keyspace : f[t] \in SeqRows(t)
          /\ store = UNION {f[t] : t \in Keyspace}
    /\ now = 0
    /\ req = [p \in Procs |-> IdleReq]
    /\ created = [t \in Idents |-> Cardinality(SelectByToken(store, t))]
    /\ consumed = [t \in Idents |->
                     Cardinality({r \in SelectByToken(store, t) : r.used = 1})]
    /\ observed = [t \in Idents |-> IF consumed[t] > 0 THEN "used" ELSE "none"]
    /\ resets = 0
    /\ wiped = {}
    /\ script = [pc |-> "reset", waiting |-> FALSE, token |-> NullStr, log |-> <<>>]

ScriptCalls(pc) ==
    /\ script.pc = pc
    /\ ~script.waiting
    /\ req[1].pc = "idle"
    /\ script' = [script EXCEPT !.waiting = TRUE]

ScriptReset == ScriptCalls("reset") /\ Reset(1)

ScriptGenerate == ScriptCalls("generate") /\ GenerateBegin(1, 1, NullStr)

ScriptVerify ==
    /\ ScriptCalls("verify1") \/ ScriptCalls("verify2")
    /\ Verify(1, script.token)

ScriptConsume ==
    /\ ScriptCalls("consume1") \/ ScriptCalls("consume2")
    /\ ConsumeUpdate(1, script.token, "unknown", "unknown", "unknown")

\* An awaited answer arrives.  After generate: token = genRes.generated[0].token,
\* or "Generation failed" and the client returns.
ScriptAnswer ==
    /\ script.waiting
    /\ req[1].pc = "done"
    /\ LET r == req[1]
           failed == script.pc = "generate" /\ Len(r.successfulTokens) = 0
       IN script' =
            [pc |-> IF failed THEN "end" ELSE ScriptNext(script.pc),
             waiting |-> FALSE,
             token |-> IF script.pc = "generate" /\ ~failed
                       THEN r.successfulTokens[1] ELSE script.token,
             log |-> Append(script.log, r.result)]
    /\ Release(1)

SeqInsert == (\E c \in Keyspace : GenerateInsert(1, c)) /\ UNCHANGED script
SeqDiag == ConsumeDiag(1) /\ UNCHANGED script

NextSeq ==
    \/ Tick
    \/ ScriptReset
    \/ ScriptGenerate
    \/ ScriptVerify
    \/ ScriptConsume
    \/ ScriptAnswer
    \/ SeqInsert
    \/ SeqDiag

SpecSeq == InitSeq /\ [][NextSeq]_vars

\* ===================================================================
\* Properties
\* ===================================================================
\* Steps of the handlers, read off two successive states.
VerifyStep(p, t) ==
    /\ req[p].pc = "idle"
    /\ req'[p].pc = "done"
    /\ req'[p].op = "verify"
    /\ req'[p].token = t

ConsumeUpdateStep(p, t) ==
    /\ req[p].pc = "idle"
    /\ req'[p].op = "consume"
    /\ req'[p].token = t

ConsumeDiagStep(p, t) ==
    /\ req[p].pc = "diag"
    /\ req'[p].pc = "done"
    /\ req[p].token = t

\* The step in which a Verify(t) or Consume(t) request gets its answer.
AnswerStep(p, t) ==
    /\ req[p].pc # "done"
    /\ req'[p].pc = "done"
    /\ req'[p].op \in {"verify", "consume"}
    /\ req'[p].token = t

DoneConsume(p, t) ==
    req[p].op = "consume" /\ req[p].pc = "done" /\ req[p].token = t

DoneVerify(p, t) ==
    req[p].op = "verify" /\ req[p].pc = "done" /\ req[p].token = t

\* ------------------------------------------------------------------ C1
\* C1: with no Reset, among the Consume(t) calls whose conditional update ran
\* while a record for t existed, exactly one returns success and every other
\* one returns already_used: at most one success is ever returned for t, a
\* call that found the record returns success or already_used, and once such
\* a call has run its update, one success has been returned.
C1_ExactlyOneConsumeSucceeds ==
    \A t \in Idents :
        /\ consumed[t] <= 1
        /\ Cardinality({p \in Procs : DoneConsume(p, t) /\ req[p].result = "success"})
               <= consumed[t]
        /\ \A p \in Procs :
              (req[p].op = "consume" /\ req[p].token = t /\ req[p].existed) =>
                  /\ consumed[t] = 1
                  /\ req[p].pc = "done" =>
                         req[p].result \in {"success", "already_used"}

\* Two Consume calls for the same token have both returned: one success, one
\* already_used.
C1_Witness ==
    \E t \in Keyspace : \E p, q \in Procs :
        /\ p # q
        /\ DoneConsume(p, t) /\ req[p].existed /\ req[p].result = "success"
        /\ DoneConsume(q, t) /\ req[q].existed /\ req[q].result = "already_used"

\* ------------------------------------------------------------------ C2
\* C2: in every reachable state no two rows of the table share a token.
C2_TokensUnique ==
    \A r1, r2 \in store : r1.token = r2.token => r1 = r2

\* A Generate request has had an INSERT rejected for a duplicate key while
\* the table holds a row for every key.
C2_Witness ==
    /\ \E p \in Procs : req[p].op = "generate" /\ req[p].retries > 0
    /\ \A t \in Keyspace : SelectByToken(store, t) # {}

\* ------------------------------------------------------------------ C3
\* C3 as stated: once t has been observed as used (a Consume(t) returned
\* success or a Verify(t) returned used), no later Verify(t) returns valid
\* and no later Consume(t) returns success, whatever Generate, Verify,
\* Consume and Reset calls are made.
C3_OnceUsedNeverValid ==
    [][\A p \in Procs, t \in Idents :
          (AnswerStep(p, t) /\ req'[p].result \in {"valid", "success"})
              => observed[t] = "none"]_vars

\* C3 amended: once t has been observed as used, no later Verify(t) returns
\* valid and no later Consume(t) returns success unless a Reset has run since
\* that observation.
C3_OnceUsedNeverValidUntilReset ==
    [][\A p \in Procs, t \in Idents :
          (AnswerStep(p, t) /\ req'[p].result \in {"valid", "success"})
              => observed[t] # "used"]_vars

\* t was observed as used and a later request on t has been answered used or
\* already_used.
C3_Witness ==
    \E t \in Keyspace : \E p, q \in Procs :
        /\ p # q
        /\ observed[t] = "used"
        /\ DoneConsume(p, t) /\ req[p].result = "success"
        /\ \/ DoneVerify(q, t) /\ req[q].result = "used"
           \/ DoneConsume(q, t) /\ req[q].result = "already_used"

\* ------------------------------------------------------------------ C4
\* C4: in every reachable state, used_at of a row is non-null exactly when
\* the row is used.
C4_UsedAtIffUsed ==
    \A r \in store : (r.used_at # NullTs) <=> (r.used = 1)

\* The table holds a used row and an unused row.
C4_Witness ==
    /\ \E r \in store : r.used = 1 /\ r.used_at # NullTs
    /\ \E r \in store : r.used = 0

\* ------------------------------------------------------------------ C5
\* No row is half-applied: used, used_at and the consumer identity columns
\* are all set or all unset.
WholeRow(r) ==
    /\ (r.used = 1) <=> (r.used_at # NullTs)
    /\ (r.used = 1) <=> (r.activated_by # NullStr)
    /\ (r.used = 1) <=> (r.auth_provider # NullStr)
    /\ (r.used = 1) <=> (r.ip_address # NullStr)

\* C5: with no Reset, a Verify(t) that reads an existing record answers valid
\* when no Consume(t) has succeeded before the read and used when one has,
\* and no state holds a half-applied record for a Verify to read.
C5_VerifyReflectsConsume ==
    /\ [](\A r \in store : WholeRow(r))
    /\ [][\A p \in Procs, t \in Idents :
             (VerifyStep(p, t) /\ SelectByToken(store, t) # {}) =>
                 /\ consumed[t] = 0 => req'[p].result = "valid"
                 /\ consumed[t] > 0 => req'[p].result = "used"]_vars

\* A Verify has answered used for a token whose Consume succeeded, while the
\* Consume's answer is still held by its slot.
C5_Witness ==
    \E t \in Keyspace : \E p, q \in Procs :
        /\ DoneVerify(p, t) /\ req[p].result = "used"
        /\ DoneConsume(q, t) /\ req[q].result = "success"
        /\ consumed[t] = 1

\* ------------------------------------------------------------------ C6
ExpectedLog == <<"reset_ok", "generated", "valid", "success", "used", "already_used">>

\* C6: in the sequential run of the client, every answer received so far is
\* the expected one: Generate(1) returns a token T, Verify(T) valid,
\* Consume(T) success, Verify(T) used, Consume(T) already_used.
C6_Lifecycle ==
    /\ Len(script.log) <= Len(ExpectedLog)
    /\ \A k \in 1..Len(script.log) : script.log[k] = ExpectedLog[k]
    /\ Len(script.log) >= 2 => script.token \in Keyspace
    /\ script.pc = "end" => script.log = ExpectedLog

\* The client has received all its answers.
C6_Witness ==
    /\ script.pc = "end"
    /\ Len(script.log) = 6
    /\ script.log[6] = "already_used"

\* ------------------------------------------------------------------ C7
\* C7: while no Generate has inserted t, every Verify(t) and Consume(t) that
\* is answered is answered not_found, and the table holds no row for t.
C7_NeverGeneratedNotFound ==
    /\ [](\A t \in Idents : created[t] = 0 => SelectByToken(store, t) = {})
    /\ [][\A p \in Procs, t \in Idents :
             (AnswerStep(p, t) /\ created'[t] = 0) =>
                 req'[p].result = "not_found"]_vars

\* Verify and Consume of identifiers never inserted have both answered
\* not_found while another token is in the table.
C7_Witness ==
    \E t, u \in Idents : \E p, q \in Procs :
        /\ created[t] = 0 /\ created[u] = 0
        /\ DoneVerify(p, t) /\ req[p].result = "not_found"
        /\ DoneConsume(q, u) /\ req[q].result = "not_found"
        /\ store # {}

\* ------------------------------------------------------------------ C8
\* C8: Verify(t) answers from the table as it is at its read: not_found
\* exactly when t has no row, used exactly when t's row is used, valid
\* exactly when t's row is unused.
C8_VerifyFunctionOfStore ==
    [][\A p \in Procs, t \in Idents :
          VerifyStep(p, t) =>
              LET rows == {r \in store : r.token = t}
                  res == req'[p].result
              IN /\ res \in {"not_found", "used", "valid"}
                 /\ (res = "not_found") <=> (rows = {})
                 /\ (res = "used") <=> (\E r \in rows : r.used = 1)
                 /\ (res = "valid") <=> (\E r \in rows : r.used = 0)]_vars

\* The three answers of Verify, two of them held at the same time.
C8_Witness ==
    \E t, u \in Idents : \E p, q \in Procs :
        /\ DoneVerify(p, t) /\ req[p].result = "valid"
        /\ DoneVerify(q, u) /\ req[q].result = "used"

\* ------------------------------------------------------------------ C9
\* C9: every Consume that is answered is answered success, not_found or
\* already_used.
C9_ConsumeOutcomes ==
    \A p \in Procs :
        (req[p].op = "consume" /\ req[p].pc = "done") =>
            req[p].result \in {"success", "not_found", "already_used"}

\* ------------------------------------------------------------------ C10
\* C10: Consume(t) answers success exactly when its UPDATE matched one unused
\* row of t; that same step makes the row used, sets used_at to the current
\* timestamp and records the consumer identity, and changes no other row.  A
\* zero-row UPDATE changes nothing, and the follow-up read changes nothing
\* and never answers success.
C10_SuccessIffOneRowUpdated ==
    [][\A p \in Procs, t \in Idents :
          /\ ConsumeUpdateStep(p, t) =>
                LET unused == {r \in store : r.token = t /\ r.used = 0}
                IN /\ (req'[p].pc = "done" /\ req'[p].result = "success")
                          <=> (Cardinality(unused) = 1)
                   /\ Cardinality(unused) = 1 =>
                         \E r \in unused : \E n \in store' :
                             /\ n.token = t /\ n.used = 1
                             /\ n.used_at = <<now>>
                             /\ n.activated_by # NullStr
                             /\ n.created_at = r.created_at
                             /\ n.recipient_name = r.recipient_name
                             /\ store' = (store \ {r}) \cup {n}
                   /\ Cardinality(unused) # 1 =>
                         /\ store' = store
                         /\ req'[p].pc = "diag"
          /\ ConsumeDiagStep(p, t) =>
                /\ store' = store
                /\ req'[p].result # "success"]_vars

\* One Consume has answered success and its row is used; another Consume of
\* the same token went through the follow-up read.
C10_Witness ==
    \E t \in Keyspace : \E p, q \in Procs :
        /\ DoneConsume(p, t) /\ req[p].result = "success"
        /\ DoneConsume(q, t) /\ req[q].result = "already_used"
        /\ \E r \in store : r.token = t /\ r.used = 1 /\ r.activated_by # NullStr

\* ------------------------------------------- Generate alone, on any table
\* The tables the service can hold: every key absent, unused or used.
AnyTable ==
    {UNION {f[t] : t \in Keyspace} :
        f \in {g \in [Keyspace -> UNION {SeqRows(t) : t \in Keyspace}] :
                  \A t \in Keyspace : g[t] \in SeqRows(t)}}

\* The service holds some table and serves no request.
InitTable ==
    /\ store \in AnyTable
    /\ now = 0
    /\ req = [p \in Procs |-> IdleReq]
    /\ created = [t \in Idents |-> Cardinality(SelectByToken(store, t))]
    /\ consumed = [t \in Idents |->
                     Cardinality({r \in SelectByToken(store, t) : r.used = 1})]
    /\ observed = [t \in Idents |-> IF consumed[t] > 0 THEN "used" ELSE "none"]
    /\ resets = 0
    /\ wiped = {}
    /\ script = [pc |-> "off", waiting |-> FALSE, token |-> NullStr, log |-> <<>>]

GenBegin ==
    \E p \in Procs, c \in 0..MaxGenCount, r \in Recipients :
        GenerateBegin(p, c, r) /\ UNCHANGED script

NextGen ==
    \/ Tick
    \/ GenBegin
    \/ DoGenerateInsert
    \/ DoRelease

SpecGen == InitTable /\ [][NextGen]_vars

\* ------------------------------------------ reads alone, on any table
DoStatsTotal == \E p \in Procs : StatsTotal(p) /\ UNCHANGED script
DoStatsUsed == \E p \in Procs : StatsUsed(p) /\ UNCHANGED script
DoStatsRecent == \E p \in Procs : StatsRecent(p) /\ UNCHANGED script
DoStatsLatest == \E p \in Procs : StatsLatest(p) /\ UNCHANGED script

NextRead ==
    \/ Tick
    \/ DoVerify
    \/ DoStatsTotal
    \/ DoStatsUsed
    \/ DoStatsRecent
    \/ DoStatsLatest
    \/ DoRelease

SpecRead == InitTable /\ [][NextRead]_vars

\* ------------------------------------------------- all five operations
NextAll ==
    \/ Next
    \/ DoStatsTotal
    \/ DoStatsUsed
    \/ DoStatsRecent
    \/ DoStatsLatest

SpecAll == Init /\ [][NextAll]_vars

\* ------------------------------------- all five operations, store failing
Operations == {"generate", "verify", "consume", "stats", "reset"}

DoUnavailable ==
    \E p \in Procs, op \in Operations : Unavailable(p, op) /\ UNCHANGED script
DoQueryFails ==
    \E p \in Procs, op \in Operations : QueryFails(p, op) /\ UNCHANGED script
DoGenerateInsertFails ==
    \E p \in Procs : GenerateInsertFails(p) /\ UNCHANGED script

\* Every request may fail; a Reset is only ever seen failing.
NextFail ==
    \/ NextNoReset
    \/ DoStatsTotal
    \/ DoStatsUsed
    \/ DoStatsRecent
    \/ DoStatsLatest
    \/ DoUnavailable
    \/ DoQueryFails
    \/ DoGenerateInsertFails

SpecFail == Init /\ [][NextFail]_vars

\* One INSERT of the generate loop of slot p, read off two successive states.
InsertStep(p) ==
    /\ req[p].pc = "loop"
    /\ req'[p] # req[p]

NoDuplicates(seq) ==
    \A j, k \in 1..Len(seq) : j # k => seq[j] # seq[k]

\* ------------------------------------------------------------------ C11
\* C11: a Generate asked for count = 0 returns no token and inserts no row.
C11_CountZeroNoOp ==
    \A p \in Procs :
        (req[p].op = "generate" /\ req[p].asked = 0) =>
            /\ req[p].successfulTokens = <<>>
            /\ req[p].count = 0

StoreErrors == {"store_error", "unavailable"}

\* C14: a request one of whose store calls failed is answered with a store
\* error, never with a domain outcome or with a successful Generate result
\* that is short or empty.  (A Generate whose failed INSERTs were all made up
\* for by retries, so that it returns every requested token, is let through.)
C14_StoreFailureReported ==
    \A p \in Procs :
        (req[p].pc = "done" /\ req[p].failed) =>
            \/ req[p].result \in StoreErrors
            \/ /\ req[p].op = "generate"
               /\ Len(req[p].successfulTokens) = req[p].count

\* ------------------------------------------------------------------ C13
\* The step in which a Reset request is served.
ResetStep ==
    \E p \in Procs : req[p].pc = "idle" /\ req'[p].op = "reset"

\* C13: the step that serves a Reset leaves the table empty; a token that was
\* generated before the last Reset and not since has no row, whatever its
\* status was, and a Verify of it answers not_found.
C13_ResetClearsEverything ==
    /\ [](\A t \in wiped : SelectByToken(store, t) = {})
    /\ [][ResetStep => store' = {}]_vars
    /\ [][\A p \in Procs : \A t \in wiped :
             VerifyStep(p, t) => req'[p].result = "not_found"]_vars

\* After a Reset, a Verify has answered not_found for a token that had been
\* consumed before the Reset and has not been generated since.
C13_Witness ==
    \E p \in Procs : \E t \in wiped :
        /\ resets > 0
        /\ consumed[t] > 0
        /\ DoneVerify(p, t) /\ req[p].result = "not_found"

\* ------------------------------------------------------------------ C15
\* C15: with only reads running, a Verify step leaves the table as it is, and
\* the Verify answers held for one token are all the same, whichever Verify
\* calls ran before them: each is the answer for the table as it stands.
C15_VerifyPureRead ==
    /\ [][\A p \in Procs : \A t \in Idents :
             VerifyStep(p, t) => store' = store]_vars
    /\ [](\A p, q \in Procs : \A t \in Idents :
            (DoneVerify(p, t) /\ DoneVerify(q, t)) =>
                /\ req[p].result = req[q].result
                /\ req[p].result = VerifyResult(SelectByToken(store, t)))

\* Two Verify calls of one unused token have both answered valid, and the
\* row is still unused.
C15_Witness ==
    \E t \in Keyspace : \E p, q \in Procs :
        /\ p # q
        /\ DoneVerify(p, t) /\ req[p].result = "valid"
        /\ DoneVerify(q, t) /\ req[q].result = "valid"
        /\ \E r \in SelectByToken(store, t) : r.used = 0

\* ------------------------------------------------------------------ C19
\* The step of an analytics request, read off two successive states.
StatsStep(p) ==
    /\ req'[p].op = "stats"
    /\ req'[p] # req[p]

\* C19: with only reads running, an analytics answer has total = rows of the
\* table, used = used rows, unused = total - used = unused rows, and the
\* conversion rate is 0% when total = 0; no analytics step changes the table.
C19_StatsCounts ==
    /\ [](\A p \in Procs :
            (req[p].op = "stats" /\ req[p].pc = "done") =>
                /\ req[p].result = "stats"
                /\ req[p].total = Cardinality(store)
                /\ req[p].used = Cardinality({r \in store : r.used = 1})
                /\ req[p].unused = req[p].total - req[p].used
                /\ req[p].unused = Cardinality({r \in store : r.used = 0})
                /\ req[p].total = 0 => req[p].conversionRate = "0%")
    /\ [][\A p \in Procs : StatsStep(p) => store' = store]_vars

\* An analytics answer for a table of one used and one unused row.
C19_Witness ==
    \E p \in Procs :
        /\ req[p].op = "stats" /\ req[p].pc = "done"
        /\ req[p].total = 2 /\ req[p].used = 1 /\ req[p].unused = 1
        /\ req[p].conversionRate = "50.0%"
        /\ Len(req[p].latest_tokens) = 2 /\ Len(req[p].recent) = 1

\* ------------------------------------------------------------------ C16
SuccessfulConsumeStep(p, t) ==
    /\ ConsumeUpdateStep(p, t)
    /\ req'[p].pc = "done"
    /\ req'[p].result = "success"

\* A step of a request other than a Reset and a successful Consume.
OtherStep(p) ==
    \/ req'[p].op = "generate" /\ req'[p] # req[p]
    \/ StatsStep(p)
    \/ \E t \in Idents : VerifyStep(p, t)
    \/ \E t \in Idents : ConsumeDiagStep(p, t)
    \/ \E t \in Idents : ConsumeUpdateStep(p, t) /\ req'[p].result # "success"

\* C16: in every step each row of the table stays as it is, or the step
\* serves a Reset, or the row is unused and the step is the successful
\* Consume of its token, which sets used, used_at and the consumer identity and
\* keeps created_at and recipient_name; so a used row is never rewritten.  The
\* steps of Generate, Verify, Stats and of a Consume that is answered not_found
\* or already_used keep every row.
C16_RecordsChangeOnlyByConsumeOrReset ==
    /\ [][\A r \in store :
             \/ r \in store'
             \/ ResetStep /\ store' = {}
             \/ /\ r.used = 0
                /\ \E p \in Procs : SuccessfulConsumeStep(p, r.token)
                /\ store \ {r} \subseteq store'
                /\ \E r2 \in store' :
                      /\ r2.token = r.token
                      /\ r2.created_at = r.created_at
                      /\ r2.recipient_name = r.recipient_name
                      /\ r2.used = 1
                      /\ r2.used_at # NullTs
                      /\ r2.activated_by # NullStr]_vars
    /\ [][(\E p \in Procs : OtherStep(p)) => store \subseteq store']_vars

\* A used row stands in the table while a Consume of its token has been
\* answered already_used and an analytics request has been answered.
C16_Witness ==
    \E r \in store : \E p, q \in Procs :
        /\ r.used = 1 /\ r.used_at # NullTs
        /\ DoneConsume(p, r.token) /\ req[p].result = "already_used"
        /\ req[q].op = "stats" /\ req[q].pc = "done" /\ req[q].used = 1

\* ------------------------------------------------------------------ C17
\* C17: a token gets a row in one step, an INSERT of a Generate, and the row
\* is complete: created_at the time of the INSERT, used 0, used_at and the
\* consumer columns null, recipient_name the recipient of the call; every
\* other new row value is written by a successful Consume.  No state holds a
\* half-written row, or a used row whose token no Consume has succeeded for.
C17_GenerateCreatesWholeRecords ==
    /\ [](\A r \in store :
            /\ WholeRow(r)
            /\ r.used \in {0, 1}
            /\ r.recipient_name \in Recipients
            /\ r.used = 1 => consumed[r.token] > 0)
    /\ [][\A r \in store' \ store :
             IF SelectByToken(store, r.token) = {}
             THEN /\ store' = store \cup {r}
                  /\ \E p \in Procs :
                        /\ InsertStep(p)
                        /\ req'[p].successfulTokens =
                               Append(req[p].successfulTokens, r.token)
                        /\ r = [token |-> r.token, created_at |-> now, used |-> 0,
                                used_at |-> NullTs,
                                recipient_name |-> req[p].recipient,
                                activated_by |-> NullStr,
                                auth_provider |-> NullStr,
                                ip_address |-> NullStr]
             ELSE /\ r.used = 1
                  /\ \E p \in Procs : SuccessfulConsumeStep(p, r.token)]_vars

\* A Generate has returned a token whose row is unused and carries the
\* recipient of the call.
C17_Witness ==
    \E p \in Procs : \E r \in store :
        /\ req[p].op = "generate" /\ req[p].pc = "done"
        /\ req[p].successfulTokens = <<r.token>>
        /\ r.used = 0 /\ r.used_at = NullTs
        /\ r.recipient_name = req[p].recipient
        /\ r.recipient_name \in Recipients

\* ------------------------------------------------------------------ C20
\* A step of a Generate, Verify or Consume request that works on token b.
StepOn(p, b) ==
    \/ VerifyStep(p, b)
    \/ ConsumeUpdateStep(p, b)
    \/ ConsumeDiagStep(p, b)
    \/ InsertStep(p) /\ SelectByToken(store', b) # SelectByToken(store, b)
    \/ InsertStep(p) /\ store' = store

\* The outcome of a consume UPDATE: 1 row updated or none.
RowCount(tbl, t) == Cardinality(UpdateMatches(tbl, t))

\* C20: for distinct tokens a and b, a Generate, Verify or Consume step on b
\* leaves the rows of a as they are, and with them the answers of Verify(a)
\* and Consume(a); on every reachable table the consume UPDATEs of a and b
\* give the same row counts and the same table in either order.
C20_TokensIndependent ==
    /\ [][\A a, b \in Idents : \A p \in Procs :
             (a # b /\ StepOn(p, b)) =>
                 /\ SelectByToken(store', a) = SelectByToken(store, a)
                 /\ VerifyResult(SelectByToken(store', a))
                        = VerifyResult(SelectByToken(store, a))
                 /\ RowCount(store', a) = RowCount(store, a)
                 /\ DiagResult(SelectByToken(store', a))
                        = DiagResult(SelectByToken(store, a))]_vars
    /\ [](\A a, b \in Idents :
            a # b =>
                LET ea == CHOOSE e \in Emails : TRUE
                    ab == UpdateConsume(
                              UpdateConsume(store, a, ea, "unknown", "unknown", now),
                              b, ea, "unknown", "unknown", now)
                    ba == UpdateConsume(
                              UpdateConsume(store, b, ea, "unknown", "unknown", now),
                              a, ea, "unknown", "unknown", now)
                IN /\ ab = ba
                   /\ RowCount(UpdateConsume(store, b, ea, "unknown", "unknown", now), a)
                         = RowCount(store, a)
                   /\ RowCount(UpdateConsume(store, a, ea, "unknown", "unknown", now), b)
                         = RowCount(store, b))

\* A Consume of one token has succeeded and a Verify of the other token,
\* whose row is unused, has answered valid.
C20_Witness ==
    \E a, b \in Keyspace : \E p, q \in Procs :
        /\ a # b
        /\ DoneConsume(p, b) /\ req[p].result = "success"
        /\ DoneVerify(q, a) /\ req[q].result = "valid"
        /\ \E r \in SelectByToken(store, a) : r.used = 0
        /\ \E r \in SelectByToken(store, b) : r.used = 1

\* ------------------------------------------------------------------ C21
\* C21: the figures of every analytics answer are those of one table: in
\* particular used <= total and unused >= 0, whatever ran between the queries.
C21_StatsOneSnapshot ==
    \A p \in Procs :
        (req[p].op = "stats" /\ req[p].pc = "done" /\ req[p].result = "stats") =>
            /\ req[p].used <= req[p].total
            /\ req[p].unused >= 0

\* ------------------------------------------------------------------ C22
\* C22: for every token, the Consume calls answered success never outnumber
\* the rows created for it, also across a Reset; while an unused row of the
\* token stands, a creation is still unconsumed.
C22_SuccessesWithinCreations ==
    \A t \in Idents :
        /\ consumed[t] <= created[t]
        /\ (\E r \in SelectByToken(store, t) : r.used = 0) =>
               consumed[t] < created[t]

\* A token was created, consumed, cleared by a Reset, created again and
\* consumed again.
C22_Witness ==
    \E t \in Keyspace :
        /\ resets > 0
        /\ created[t] = 2
        /\ consumed[t] = 2
        /\ \E r \in SelectByToken(store, t) : r.used = 1

\* ------------------------------------------------------------------ C23
\* Generate calls of up to MaxGenCount tokens with Reset calls among them.
NextGenReset ==
    \/ Tick
    \/ GenBegin
    \/ DoGenerateInsert
    \/ DoReset
    \/ DoRelease

SpecGenReset == InitTable /\ [][NextGenReset]_vars

\* The list of slot p grows by token c exactly in the steps in which the
\* INSERT of slot p creates the row of c; no other step creates a row or
\* changes a list.
ListFollowsOwnInserts ==
    /\ \A p \in Procs :
          InsertStep(p) =>
              LET old == req[p].successfulTokens
                  new == req'[p].successfulTokens
              IN /\ new = old \/ \E c \in Keyspace : new = Append(old, c)
                 /\ \A c \in Keyspace :
                       (new = Append(old, c)) <=> (created'[c] = created[c] + 1)
                 /\ \A c \in Keyspace :
                       new = Append(old, c) =>
                           /\ SelectByToken(store, c) = {}
                           /\ SelectByToken(store', c) # {}
                 /\ new = old => (created' = created /\ store' = store)
    /\ \A p \in Procs :
          (req[p].op = "generate" /\ req'[p].op = "generate"
             /\ req'[p].successfulTokens # req[p].successfulTokens) => InsertStep(p)
    /\ created' # created => \E p \in Procs : InsertStep(p)

====
